---- MODULE Spec2Model ----
(***************************************************************************)
(* Model of backend/app.py: the POST /weather handler, the condition       *)
(* classifier, the summary synthesizer and the reverse-geocoding helper.   *)
(***************************************************************************)
EXTENDS Integers, Sequences, FiniteSets, TLC

(***************************************************************************)
(* JSON values as the handler sees them after request.get_json():          *)
(* data.get(k) is None for an absent key ("absent") and for a JSON null.   *)
(* Numbers are counted in eighths (exact binary fractions), so that the    *)
(* ".2f" formatting below rounds as the float formatting does.             *)
(***************************************************************************)
Absent == [t |-> "absent", n |-> 0, s |-> <<>>]
Null == [t |-> "null", n |-> 0, s |-> <<>>]
Bool(b) == [t |-> "bool", n |-> IF b THEN 1 ELSE 0, s |-> <<>>]
Num(eighths) == [t |-> "num", n |-> eighths, s |-> <<>>]
Str(chars) == [t |-> "str", n |-> 0, s |-> chars]

\* Variant of Truthy that takes a coordinate of 0 as given.
TruthyZeroOk(v) ==
    CASE v.t = "absent" -> FALSE
      [] v.t = "null" -> FALSE
      [] v.t = "bool" -> v.n # 0
      [] v.t = "num" -> TRUE
      [] v.t = "str" -> Len(v.s) > 0
      [] OTHER -> FALSE

\* Python truth value of a JSON value: `lat and lon and date` (line 59).
Truthy(v) ==
    CASE v.t = "absent" -> FALSE
      [] v.t = "null" -> FALSE
      [] v.t = "bool" -> v.n # 0
      [] v.t = "num" -> v.n # 0
      [] v.t = "str" -> Len(v.s) > 0
      [] OTHER -> FALSE

(***************************************************************************)
(* datetime.strptime(date, "%Y-%m-%d") (line 62).  The format compiles to  *)
(*   (\d\d\d\d)-(1[0-2]|0[1-9]|[1-9])-(3[01]|[12]\d|0[1-9]|[1-9]| [1-9])   *)
(* matched at the start of the string; text left over, year 0 and a day    *)
(* beyond the month's length raise ValueError; a non-string raises         *)
(* TypeError.  A string is a sequence of one-character strings.            *)
(***************************************************************************)
Digits == <<"0", "1", "2", "3", "4", "5", "6", "7", "8", "9">>
IsDigit(c) == \E i \in 1..10 : Digits[i] = c
DigitVal(c) == (CHOOSE i \in 1..10 : Digits[i] = c) - 1
At(s, i) == IF i >= 1 /\ i <= Len(s) THEN s[i] ELSE "$"
IsNonZeroDigit(c) == IsDigit(c) /\ c # "0"

\* Length of the month field matched at position i, 0 when none matches.
MonthAlt(s, i) ==
    CASE At(s, i) = "1" /\ At(s, i + 1) \in {"0", "1", "2"} -> 2
      [] At(s, i) = "0" /\ IsNonZeroDigit(At(s, i + 1)) -> 2
      [] OTHER -> 0

\* Length of the day field matched at position i (first alternative that
\* matches), 0 when none matches.
DayAlt(s, i) ==
    CASE At(s, i) = "3" /\ At(s, i + 1) \in {"0", "1"} -> 2
      [] At(s, i) \in {"1", "2"} /\ IsDigit(At(s, i + 1)) -> 2
      [] At(s, i) = "0" /\ IsNonZeroDigit(At(s, i + 1)) -> 2
      [] IsNonZeroDigit(At(s, i)) -> 1
      [] At(s, i) = " " /\ IsNonZeroDigit(At(s, i + 1)) -> 2
      [] OTHER -> 0

\* Value of the digits of s in i..j, blanks skipped (int(" 5") = 5).
RECURSIVE FieldVal(_, _, _)
FieldVal(s, i, j) ==
    IF j < i THEN 0
    ELSE IF s[j] = " " THEN FieldVal(s, i, j - 1)
    ELSE 10 * FieldVal(s, i, j - 1) + DigitVal(s[j])

IsLeap(y) == (y % 4 = 0 /\ y % 100 # 0) \/ y % 400 = 0
DaysIn(y, m) ==
    IF m = 2 THEN (IF IsLeap(y) THEN 29 ELSE 28)
    ELSE IF m \in {4, 6, 9, 11} THEN 30 ELSE 31

BadDate(why) == [ok |-> FALSE, exc |-> why, y |-> 0, m |-> 0, d |-> 0]

\* The month field of the regular expression: the two-character
\* alternatives are tried first, and the one-character one on backtracking
\* (when "-" and a day do not follow the two characters).
MonthLen(s) ==
    LET follows(l) == At(s, 6 + l) = "-" /\ DayAlt(s, 7 + l) > 0
    IN  IF MonthAlt(s, 6) = 2 /\ follows(2) THEN 2
        ELSE IF IsNonZeroDigit(At(s, 6)) /\ follows(1) THEN 1
        ELSE 0

\* Variant of strptime without the checks of the year and of the day
\* against the month's length.
strptime_day_unchecked(v) ==
    IF v.t # "str" THEN BadDate("TypeError")
    ELSE LET s == v.s
             ml == MonthLen(s)
             dl == DayAlt(s, 7 + ml)
         IN  IF ~(\A i \in 1..4 : IsDigit(At(s, i))) \/ At(s, 5) # "-" \/ ml = 0
             THEN BadDate("ValueError: does not match format")
             ELSE IF 6 + ml + dl # Len(s)
             THEN BadDate("ValueError: unconverted data remains")
             ELSE [ok |-> TRUE, exc |-> "", y |-> FieldVal(s, 1, 4),
                   m |-> FieldVal(s, 6, 5 + ml), d |-> FieldVal(s, 7 + ml, 6 + ml + dl)]

strptime(v) ==
    IF v.t # "str" THEN BadDate("TypeError")
    ELSE LET s == v.s
             ml == MonthLen(s)
             dl == DayAlt(s, 7 + ml)
             y == FieldVal(s, 1, 4)
             m == FieldVal(s, 6, 5 + ml)
             d == FieldVal(s, 7 + ml, 6 + ml + dl)
         IN  IF ~(\A i \in 1..4 : IsDigit(At(s, i))) \/ At(s, 5) # "-" \/ ml = 0
             THEN BadDate("ValueError: does not match format")
             ELSE IF 6 + ml + dl # Len(s)
             THEN BadDate("ValueError: unconverted data remains")
             ELSE IF y = 0
             THEN BadDate("ValueError: year 0 is out of range")
             ELSE IF d > DaysIn(y, m)
             THEN BadDate("ValueError: day is out of range for month")
             ELSE [ok |-> TRUE, exc |-> "", y |-> y, m |-> m, d |-> d]

\* Variant of DateLess that takes today as past.
DateLessOrEqual(a, b) ==
    \/ a.y < b.y
    \/ a.y = b.y /\ a.m < b.m
    \/ a.y = b.y /\ a.m = b.m /\ a.d <= b.d

\* dt.date() < today (line 66): calendar order.
DateLess(a, b) ==
    \/ a.y < b.y
    \/ a.y = b.y /\ a.m < b.m
    \/ a.y = b.y /\ a.m = b.m /\ a.d < b.d

(***************************************************************************)
(* Daily metrics are rationals [n, d] with d > 0 (a mean is sum / len).    *)
(***************************************************************************)
Rat(n, d) == [n |-> n, d |-> d]
Gt(q, k) == q.n > k * q.d
Lt(q, k) == q.n < k * q.d

(***************************************************************************)
(* CONDITION_RULES (lines 8-14).  Each rule is a lambda; its signature is  *)
(* kept: npos named positional parameters before the star parameter, the   *)
(* keyword-only parameters after it, and the parameter the body reads.     *)
(*   lambda t, *_        : t > 35      lambda _, w, *__ : w > 40           *)
(*   lambda t, *_        : t < 5       lambda *_, p, **__ : p > 10         *)
(*   lambda *_, h        : h > 80                                          *)
(* The icons and the warning sign of the risk text are emoji in the        *)
(* source and are spelled in ASCII here.                                   *)
(***************************************************************************)
CONDITION_RULES == <<
    [label |-> "Very Hot", npos |-> 1, kwonly |-> {}, reads |-> 1, cmp |-> ">", bound |-> 35,
     icon |-> "sun", risk |-> "(!) Very Hot",
     advice |-> "Pack extra water and sunscreen.", color |-> "red"],
    [label |-> "Very Cold", npos |-> 1, kwonly |-> {}, reads |-> 1, cmp |-> "<", bound |-> 5,
     icon |-> "snowflake", risk |-> "(!) Very Cold",
     advice |-> "Dress warmly and watch for ice.", color |-> "blue"],
    [label |-> "Very Windy", npos |-> 2, kwonly |-> {}, reads |-> 2, cmp |-> ">", bound |-> 40,
     icon |-> "wind", risk |-> "(!) Very Windy",
     advice |-> "Secure loose items and avoid open areas.", color |-> "gray"],
    [label |-> "Very Wet", npos |-> 0, kwonly |-> {"p"}, reads |-> 0, cmp |-> ">", bound |-> 10,
     icon |-> "rain", risk |-> "(!) Very Wet",
     advice |-> "Bring rain gear and waterproof shoes.", color |-> "darkblue"],
    [label |-> "Very Uncomfortable", npos |-> 0, kwonly |-> {"h"}, reads |-> 0, cmp |-> ">", bound |-> 80,
     icon |-> "sweat", risk |-> "(!) Very Uncomfortable",
     advice |-> "Stay hydrated and take breaks.", color |-> "orange"] >>

Labels == {CONDITION_RULES[i].label : i \in 1..Len(CONDITION_RULES)}

\* The rendered copy of a rule (lines 32-38).
ConditionMatch(r) ==
    [label |-> r.label, icon |-> r.icon, risk |-> r.risk, advice |-> r.advice,
     color |-> r.color]

\* rule(temp, wind, precip, humidity) (line 31): a call with positional
\* arguments only.  A missing positional parameter or a keyword-only
\* parameter without default that no keyword fills raises TypeError.
CallRule(r, args) ==
    IF Len(args) < r.npos \/ r.kwonly # {}
    THEN [raised |-> TRUE, val |-> FALSE]
    ELSE [raised |-> FALSE,
          val |-> IF r.cmp = ">" THEN Gt(args[r.reads], r.bound)
                  ELSE Lt(args[r.reads], r.bound)]

Raise(exc) == [raised |-> TRUE, exc |-> exc, val |-> <<>>]
Return(v) == [raised |-> FALSE, exc |-> "", val |-> v]

RECURSIVE ClassifyFrom(_, _, _)
ClassifyFrom(args, i, results) ==
    IF i > Len(CONDITION_RULES) THEN Return(results)
    ELSE LET r == CONDITION_RULES[i]
             c == CallRule(r, args)
         IN  IF c.raised THEN Raise("TypeError")
             ELSE ClassifyFrom(args, i + 1,
                               IF c.val THEN Append(results, ConditionMatch(r))
                               ELSE results)

\* classify_conditions (lines 28-39).
classify_conditions(temp, wind, precip, humidity) ==
    ClassifyFrom(<<temp, wind, precip, humidity>>, 1, <<>>)

(***************************************************************************)
(* get_summary (lines 42-51).                                              *)
(***************************************************************************)
AnyLabel(conditions, labels) ==
    \E i \in 1..Len(conditions) : conditions[i].label \in labels

\* Variant of get_summary that ranks Very Cold above Very Windy.
get_summary_cold_first(conditions) ==
    IF conditions = <<>> THEN "Great day for outdoor activities!"
    ELSE IF AnyLabel(conditions, {"Very Hot", "Very Wet", "Very Uncomfortable"})
    THEN "This day looks uncomfortable for hiking. Best to plan indoors."
    ELSE IF AnyLabel(conditions, {"Very Cold"})
    THEN "Dress warmly for outdoor activities."
    ELSE IF AnyLabel(conditions, {"Very Windy"})
    THEN "Windy conditions. Caution advised for outdoor events."
    ELSE "Check conditions before heading out."

get_summary(conditions) ==
    IF conditions = <<>> THEN "Great day for outdoor activities!"
    ELSE IF AnyLabel(conditions, {"Very Hot", "Very Wet", "Very Uncomfortable"})
    THEN "This day looks uncomfortable for hiking. Best to plan indoors."
    ELSE IF AnyLabel(conditions, {"Very Windy"})
    THEN "Windy conditions. Caution advised for outdoor events."
    ELSE IF AnyLabel(conditions, {"Very Cold"})
    THEN "Dress warmly for outdoor activities."
    ELSE "Check conditions before heading out."

(***************************************************************************)
(* f"{x:.2f}" (lines 22, 25): a float (or an int, or a bool, which is an   *)
(* int) is rounded to hundredths, ties to even, and written with a sign,   *)
(* the integer part and two decimals; any other type raises.               *)
(***************************************************************************)
RECURSIVE NatStr(_)
NatStr(k) == IF k < 10 THEN Digits[k + 1] ELSE NatStr(k \div 10) \o Digits[(k % 10) + 1]

Eighths(v) == IF v.t = "bool" THEN 8 * v.n ELSE v.n
Abs(k) == IF k < 0 THEN -k ELSE k

\* |k| eighths in hundredths, rounded half to even: k/8 = 12.5k/100.
Hundredths(k) ==
    LET twice == 25 * Abs(k)
        q == twice \div 2
    IN  IF twice % 2 = 0 THEN q
        ELSE IF q % 2 = 0 THEN q ELSE q + 1

CanFormat(v) == v.t \in {"num", "bool"}

Fmt2(v) ==
    LET k == Eighths(v)
        h == Hundredths(k)
    IN  (IF k < 0 THEN "-" ELSE "") \o NatStr(h \div 100) \o "."
        \o Digits[((h \div 10) % 10) + 1] \o Digits[(h % 10) + 1]

\* f"{lat:.2f}, {lon:.2f}"
Fallback(lat, lon) ==
    IF CanFormat(lat) /\ CanFormat(lon)
    THEN Return(Fmt2(lat) \o ", " \o Fmt2(lon))
    ELSE Raise(IF lat.t = "str" \/ (CanFormat(lat) /\ lon.t = "str")
               THEN "ValueError" ELSE "TypeError")

(***************************************************************************)
(* The reverse-geocoding provider's answers to the GET of line 19.         *)
(***************************************************************************)
GeoOutcomes == {
    [kind |-> "network_error", name |-> ""],
    [kind |-> "timeout", name |-> ""],
    [kind |-> "status_500", name |-> ""],
    [kind |-> "not_json", name |-> ""],
    [kind |-> "json_list", name |-> ""],
    [kind |-> "no_display_name", name |-> ""],
    [kind |-> "display_name", name |-> "Bengaluru, Karnataka, India"] }

\* get_location_name (lines 17-25).  Inside the try: the GET, resp.ok,
\* resp.json() and data.get("display_name", <fallback>), whose default is
\* formatted before the lookup; every exception there is swallowed.  The
\* fallback of line 25 is formatted outside the try.
get_location_name(lat, lon, geo) ==
    LET inTry == IF geo.kind \in {"display_name", "no_display_name"}
                 THEN LET dflt == Fallback(lat, lon)
                      IN  IF dflt.raised THEN dflt
                          ELSE IF geo.kind = "display_name" THEN Return(geo.name)
                          ELSE dflt
                 ELSE IF geo.kind = "status_500" THEN Raise("(not ok)")
                 ELSE Raise(geo.kind)
    IN  IF ~inTry.raised THEN inTry ELSE Fallback(lat, lon)

(***************************************************************************)
(* The request handler weather() (lines 53-97) as a state machine.         *)
(***************************************************************************)
VARIABLES
    req,        \* the JSON object of the request body: lat, lon, date
    today,      \* datetime.utcnow().date() when the request is served
    pc,         \* position of the handler: recv, validated, fetched, done
    dt,         \* the parsed date (line 62)
    wx,         \* what the weather provider answered (line 78)
    metrics,    \* <<temp, wind, precip, humidity>> (lines 83-86)
    conditions, \* outcome of classify_conditions (line 89)
    geo,        \* what the geocoding provider answered (line 19)
    calls,      \* the outbound GETs issued so far, in order
    resp,       \* the HTTP response returned
    fn,         \* unit harness: the helper called on its own, "" in the handler
    arg,        \* unit harness: its arguments
    ret         \* unit harness: its outcome

vars == <<req, today, pc, dt, wx, metrics, conditions, geo, calls, resp, fn, arg, ret>>

\* Bounds of the model.
MaxHours == 2
MaxConds == 3

Chars_2000_01_01 == <<"2", "0", "0", "0", "-", "0", "1", "-", "0", "1">>
Chars_2099_01_01 == <<"2", "0", "9", "9", "-", "0", "1", "-", "0", "1">>
Chars_2024_03_04 == <<"2", "0", "2", "4", "-", "0", "3", "-", "0", "4">>
Chars_2024_03_05 == <<"2", "0", "2", "4", "-", "0", "3", "-", "0", "5">>
Chars_2024_3_5 == <<"2", "0", "2", "4", "-", "3", "-", "5">>
Chars_2024_03_06 == <<"2", "0", "2", "4", "-", "0", "3", "-", "0", "6">>
Chars_2024_02_30 == <<"2", "0", "2", "4", "-", "0", "2", "-", "3", "0">>
Chars_13_25_2024 == <<"1", "3", "/", "2", "5", "/", "2", "0", "2", "4">>

\* Request bodies served.  12.625 is 101 eighths, 77.625 is 621.
LatValues == {Absent, Null, Num(0), Num(101), Str(<<"1", "2", ".", "5">>)}
LonValues == {Absent, Num(0), Num(621), Bool(FALSE)}
DateValues == {Absent, Str(<<>>), Num(20240305 * 8),
               Str(Chars_2000_01_01), Str(Chars_2099_01_01), Str(Chars_2024_03_04),
               Str(Chars_2024_03_05), Str(Chars_2024_3_5), Str(Chars_2024_03_06),
               Str(Chars_2024_02_30), Str(Chars_13_25_2024)}
Todays == {[y |-> 2024, m |-> 3, d |-> 5], [y |-> 2024, m |-> 3, d |-> 6]}

ArchiveUrl == "https://archive-api.open-meteo.com/v1/archive"
ForecastUrl == "https://api.open-meteo.com/v1/forecast"
NominatimUrl == "https://nominatim.openstreetmap.org/reverse"
HourlyFields == "temperature_2m,windspeed_10m,precipitation,relativehumidity_2m"

(***************************************************************************)
(* The weather provider's answers.  An hourly series is absent or a        *)
(* sequence of at most MaxHours readings.                                  *)
(***************************************************************************)
Readings == {4, 90}
NoSeries == [present |-> FALSE, v |-> <<>>]
\* The provider's series are parallel: those present have one length n.
SeriesValues(n) == {NoSeries} \cup {[present |-> TRUE, v |-> s] : s \in [1..n -> Readings]}
NoHourly == [temperature_2m |-> NoSeries, windspeed_10m |-> NoSeries,
             precipitation |-> NoSeries, relativehumidity_2m |-> NoSeries]
HourlyValues ==
    UNION {[temperature_2m : SeriesValues(n), windspeed_10m : SeriesValues(n),
            precipitation : SeriesValues(n), relativehumidity_2m : SeriesValues(n)] :
           n \in 0..MaxHours}

\* The answers on which lines 78-86 raise, with str(e).
WxFailures == {
    [kind |-> "transport", detail |-> "Connection refused", hourly |-> NoHourly],
    [kind |-> "timeout", detail |-> "Read timed out. (read timeout=10)", hourly |-> NoHourly],
    [kind |-> "http_error", detail |-> "500 Server Error", hourly |-> NoHourly],
    [kind |-> "not_json", detail |-> "Expecting value: line 1 column 1 (char 0)",
     hourly |-> NoHourly],
    [kind |-> "json_list", detail |-> "list indices must be integers or slices, not str",
     hourly |-> NoHourly],
    [kind |-> "no_hourly", detail |-> "'hourly'", hourly |-> NoHourly],
    [kind |-> "hourly_null", detail |-> "'NoneType' object has no attribute 'get'",
     hourly |-> NoHourly] }
WxOutcomes ==
    WxFailures \cup {[kind |-> "ok", detail |-> "", hourly |-> h] : h \in HourlyValues}
NoWx == [kind |-> "none", detail |-> "", hourly |-> NoHourly]

RECURSIVE Sum(_)
Sum(s) == IF s = <<>> THEN 0 ELSE s[1] + Sum(Tail(s))
RECURSIVE Max(_)
Max(s) == IF Len(s) = 1 THEN s[1]
          ELSE LET m == Max(Tail(s)) IN IF s[1] >= m THEN s[1] ELSE m

\* h.get(k) is truthy: the series is present and not empty.
HasData(series) == series.present /\ series.v # <<>>

\* sum(h[k]) / len(h[k]) if h.get(k) else 0     (lines 83, 86)
MeanOrZero(series) ==
    IF HasData(series) THEN Rat(Sum(series.v), Len(series.v)) ELSE Rat(0, 1)
\* max(h[k]) if h.get(k) else 0                 (line 84)
MaxOrZero(series) == IF HasData(series) THEN Rat(Max(series.v), 1) ELSE Rat(0, 1)
\* sum(h.get("precipitation", [0]))             (line 85)
SumOrZero(series) == IF series.present THEN Rat(Sum(series.v), 1) ELSE Rat(Sum(<<0>>), 1)

DailyMetrics(h) ==
    <<MeanOrZero(h.temperature_2m), MaxOrZero(h.windspeed_10m),
      SumOrZero(h.precipitation), MeanOrZero(h.relativehumidity_2m)>>

NoMetrics == <<>>
NotRun == [raised |-> FALSE, exc |-> "(not run)", val |-> <<>>]
NoGeo == [kind |-> "none", name |-> ""]
NoDate == BadDate("")
NoResp == [status |-> 0, keys |-> {}, error |-> "", location_name |-> "",
           date |-> <<>>, summary |-> "", conditions |-> <<>>]
ErrorResp(status, message) ==
    [status |-> status, keys |-> {"error"}, error |-> message, location_name |-> "",
     date |-> <<>>, summary |-> "", conditions |-> <<>>]
\* An exception that leaves weather(): the framework answers 500.
UnhandledResp == [NoResp EXCEPT !.status = 500]

Init ==
    /\ req \in [lat : LatValues, lon : LonValues, date : DateValues]
    /\ today \in Todays
    /\ pc = "recv"
    /\ dt = NoDate
    /\ wx = NoWx
    /\ metrics = NoMetrics
    /\ conditions = NotRun
    /\ geo = NoGeo
    /\ calls = <<>>
    /\ resp = NoResp
    /\ fn = ""
    /\ arg = <<>>
    /\ ret = <<>>

\* Lines 55-64: the missing-field check, then the date-format check.
Validate ==
    /\ pc = "recv"
    /\ IF ~(Truthy(req.lat) /\ Truthy(req.lon) /\ Truthy(req.date))
       THEN /\ resp' = ErrorResp(400, "Missing lat, lon, or date")
            /\ pc' = "done"
            /\ dt' = dt
       ELSE IF ~strptime(req.date).ok
       THEN /\ resp' = ErrorResp(400, "Invalid date format, use YYYY-MM-DD")
            /\ pc' = "done"
            /\ dt' = dt
       ELSE /\ dt' = strptime(req.date)
            /\ pc' = "validated"
            /\ resp' = resp
    /\ UNCHANGED <<req, today, wx, metrics, conditions, geo, calls, fn, arg, ret>>

\* Variant of ExceptException: `except pyrequests.RequestException`.
ExceptRequestException(kind) == kind \in {"transport", "timeout", "http_error", "not_json"}

\* `except Exception` (line 87): which failures of the try block it catches.
ExceptException(kind) == TRUE

\* Line 68.
base_url(is_past) == IF is_past THEN ArchiveUrl ELSE ForecastUrl

\* Lines 65-88: endpoint selection, the single GET, and the reduction of
\* the hourly series; any exception of the try block answers 502.
FetchWeather ==
    /\ pc = "validated"
    /\ \E answer \in WxOutcomes :
        /\ wx' = answer
        /\ calls' = Append(calls,
                [to |-> base_url(DateLess(dt, today)),
                 params |-> [latitude |-> req.lat, longitude |-> req.lon,
                             start_date |-> req.date.s, end_date |-> req.date.s,
                             hourly |-> HourlyFields, timezone |-> "auto"],
                 timeout |-> 10])
        /\ IF answer.kind = "ok"
           THEN /\ metrics' = DailyMetrics(answer.hourly)
                /\ pc' = "fetched"
                /\ resp' = resp
           ELSE /\ resp' = IF ExceptException(answer.kind)
                          THEN ErrorResp(502, "Weather data unavailable: " \o answer.detail)
                          ELSE UnhandledResp
                /\ pc' = "done"
                /\ metrics' = metrics
    /\ UNCHANGED <<req, today, dt, conditions, geo, fn, arg, ret>>

GeoCall == [to |-> NominatimUrl,
            params |-> [lat |-> req.lat, lon |-> req.lon, format |-> "json"],
            timeout |-> 5]

\* Variant of Respond that looks the location up before classifying.
RespondGeoFirst ==
    /\ pc = "fetched"
    /\ \E answer \in GeoOutcomes :
        LET loc == get_location_name(req.lat, req.lon, answer)
            c == classify_conditions(metrics[1], metrics[2], metrics[3], metrics[4])
        IN  /\ geo' = answer
            /\ calls' = Append(calls, GeoCall)
            /\ conditions' = c
            /\ resp' = IF loc.raised \/ c.raised THEN UnhandledResp
                       ELSE [status |-> 200,
                             keys |-> {"location_name", "date", "summary", "conditions"},
                             error |-> "", location_name |-> loc.val, date |-> req.date.s,
                             summary |-> get_summary(c.val), conditions |-> c.val]
    /\ pc' = "done"
    /\ UNCHANGED <<req, today, dt, wx, metrics, fn, arg, ret>>

\* Lines 89-97: classification, location lookup, summary and the response.
\* None of it is inside a try: an exception leaves the handler.
Respond ==
    /\ pc = "fetched"
    /\ LET c == classify_conditions(metrics[1], metrics[2], metrics[3], metrics[4])
       IN  /\ conditions' = c
           /\ IF c.raised
              THEN /\ calls' = calls
                   /\ geo' = geo
                   /\ resp' = UnhandledResp
              ELSE \E answer \in GeoOutcomes :
                     LET loc == get_location_name(req.lat, req.lon, answer)
                     IN  /\ geo' = answer
                         /\ calls' = Append(calls, GeoCall)
                         /\ IF loc.raised
                            THEN resp' = UnhandledResp
                            ELSE resp' = [status |-> 200,
                                          keys |-> {"location_name", "date", "summary",
                                                    "conditions"},
                                          error |-> "",
                                          location_name |-> loc.val,
                                          date |-> req.date.s,
                                          summary |-> get_summary(c.val),
                                          conditions |-> c.val]
    /\ pc' = "done"
    /\ UNCHANGED <<req, today, dt, wx, metrics, fn, arg, ret>>

Next == Validate \/ FetchWeather \/ Respond

Spec == Init /\ [][Next]_vars

(***************************************************************************)
(* The helpers called on their own: the arguments are drawn by the initial *)
(* state and one step applies the helper.                                  *)
(***************************************************************************)
NoReq == [lat |-> Absent, lon |-> Absent, date |-> Absent]

Harness(name) ==
    /\ req = NoReq
    /\ today = [y |-> 2024, m |-> 3, d |-> 5]
    /\ pc = "call"
    /\ dt = NoDate
    /\ wx = NoWx
    /\ metrics = NoMetrics
    /\ conditions = NotRun
    /\ geo = NoGeo
    /\ calls = <<>>
    /\ resp = NoResp
    /\ fn = name
    /\ ret = <<>>

HarnessUnchanged == UNCHANGED <<req, today, dt, wx, metrics, conditions, geo, calls, resp, fn, arg>>

\* classify_conditions on daily metrics around every threshold.
TempSamples == {Rat(0, 1), Rat(4, 1), Rat(5, 1), Rat(35, 1), Rat(71, 2), Rat(40, 1)}
WindSamples == {Rat(0, 1), Rat(40, 1), Rat(41, 1)}
PrecipSamples == {Rat(0, 1), Rat(10, 1), Rat(11, 1)}
HumiditySamples == {Rat(0, 1), Rat(80, 1), Rat(161, 2)}

InitClassify ==
    /\ Harness("classify_conditions")
    /\ arg \in TempSamples \X WindSamples \X PrecipSamples \X HumiditySamples

CallClassify ==
    /\ pc = "call"
    /\ fn = "classify_conditions"
    /\ ret' = classify_conditions(arg[1], arg[2], arg[3], arg[4])
    /\ pc' = "returned"
    /\ HarnessUnchanged

SpecClassify == InitClassify /\ [][CallClassify]_vars

\* get_summary on every sequence of at most MaxConds condition records.
Matches == {ConditionMatch(CONDITION_RULES[i]) : i \in 1..Len(CONDITION_RULES)}

InitSummary ==
    /\ Harness("get_summary")
    /\ arg \in UNION {[1..n -> Matches] : n \in 0..MaxConds}

CallSummary ==
    /\ pc = "call"
    /\ fn = "get_summary"
    /\ ret' = get_summary(arg)
    /\ pc' = "returned"
    /\ HarnessUnchanged

SpecSummary == InitSummary /\ [][CallSummary]_vars

\* get_location_name on coordinates that pass line 59 (any truthy JSON
\* value), against every answer of the geocoding provider.
CoordValues == {Num(101), Num(621), Num(-1), Num(96), Bool(TRUE),
                Str(<<"1", "2", ".", "5">>)}

InitLocation ==
    /\ Harness("get_location_name")
    /\ arg \in CoordValues \X CoordValues

CallLocation ==
    /\ pc = "call"
    /\ fn = "get_location_name"
    /\ \E answer \in GeoOutcomes :
        ret' = [geo |-> answer, out |-> get_location_name(arg[1], arg[2], answer)]
    /\ pc' = "returned"
    /\ HarnessUnchanged

SpecLocation == InitLocation /\ [][CallLocation]_vars

(***************************************************************************)
(* Properties of the handler, checked under Spec.                          *)
(***************************************************************************)
Falsy(v) == v \in {Absent, Null, Bool(FALSE), Num(0), Str(<<>>)}
AnyFieldFalsy == Falsy(req.lat) \/ Falsy(req.lon) \/ Falsy(req.date)

\* The date strings of DateValues that are calendar dates written
\* year-month-day, with the day number each denotes.
DayNumber(v) ==
    CASE v = Str(Chars_2000_01_01) -> 20000101
      [] v = Str(Chars_2099_01_01) -> 20990101
      [] v = Str(Chars_2024_03_04) -> 20240304
      [] v = Str(Chars_2024_03_05) -> 20240305
      [] v = Str(Chars_2024_3_5) -> 20240305
      [] v = Str(Chars_2024_03_06) -> 20240306
      [] OTHER -> 0
IsCalendarDate(v) == DayNumber(v) # 0
TodayNumber == today.y * 10000 + today.m * 100 + today.d

WeatherCalls == {i \in 1..Len(calls) : calls[i].to \in {ArchiveUrl, ForecastUrl}}
GeoCalls == {i \in 1..Len(calls) : calls[i].to = NominatimUrl}

\* C1: a request with lat, lon or date absent or falsy (0 included, and
\* whatever the date looks like) is answered 400 "Missing lat, lon, or date"
\* and issues no outbound request.
C1_MissingFieldRejected ==
    AnyFieldFalsy =>
        /\ calls = <<>>
        /\ pc \in {"recv", "done"}
        /\ pc = "done" => resp = ErrorResp(400, "Missing lat, lon, or date")

C1_Witness ==
    /\ pc = "done"
    /\ req.lat = Num(0)
    /\ ~Falsy(req.lon)
    /\ req.date = Str(Chars_13_25_2024)
    /\ resp.status = 400
    /\ resp.error = "Missing lat, lon, or date"

\* C2: a request whose lat, lon and date are all truthy but whose date is
\* not a calendar date in year-month-day form (a malformed string, an
\* impossible day, a non-string) is answered 400 "Invalid date format, use
\* YYYY-MM-DD" and issues no outbound request.
C2_BadDateRejected ==
    (~AnyFieldFalsy /\ ~IsCalendarDate(req.date)) =>
        /\ calls = <<>>
        /\ pc \in {"recv", "done"}
        /\ pc = "done" => resp = ErrorResp(400, "Invalid date format, use YYYY-MM-DD")

C2_Witness ==
    /\ pc = "done"
    /\ ~Falsy(req.lat) /\ ~Falsy(req.lon)
    /\ req.date = Str(Chars_2024_02_30)
    /\ resp.status = 400
    /\ resp.error = "Invalid date format, use YYYY-MM-DD"

\* C3: when the weather GET fails in any way, the response is 502 with
\* "Weather data unavailable: <detail>" carrying the failure's description,
\* and nothing else: no location_name, summary or conditions, and no
\* geocoding request.
C3_WeatherFailureIs502 ==
    wx.kind \notin {"none", "ok"} =>
        /\ pc = "done"
        /\ resp.status = 502
        /\ resp.keys = {"error"}
        /\ resp.error = "Weather data unavailable: " \o wx.detail
        /\ GeoCalls = {}

C3_Witness ==
    /\ pc = "done"
    /\ wx.kind = "no_hourly"
    /\ resp.status = 502
    /\ resp.error = "Weather data unavailable: 'hourly'"

\* C4: a validated request whose weather GET succeeds with a well-formed
\* hourly body is answered 200 with location_name, date, summary and
\* conditions whatever the geocoding call does; when geocoding fails the
\* location_name is lat and lon to two decimals joined by ", ".
C4_SuccessIs200 ==
    (pc = "done" /\ wx.kind = "ok") =>
        /\ resp.status = 200
        /\ resp.keys = {"location_name", "date", "summary", "conditions"}
        /\ geo.kind # "display_name" =>
               resp.location_name = Fmt2(req.lat) \o ", " \o Fmt2(req.lon)

\* The provider answered an hourly object with no data in any series.
AllSeriesEmpty ==
    /\ wx.kind = "ok"
    /\ ~HasData(wx.hourly.temperature_2m)
    /\ ~HasData(wx.hourly.windspeed_10m)
    /\ ~HasData(wx.hourly.precipitation)
    /\ ~HasData(wx.hourly.relativehumidity_2m)

\* C7: when all four hourly series are absent or empty the handler raises no
\* error, the daily metrics are (0, 0, 0, 0), no condition matches and the
\* summary is "Great day for outdoor activities!".
C7_EmptySeriesGreatDay ==
    (pc = "done" /\ AllSeriesEmpty) =>
        /\ metrics = <<Rat(0, 1), Rat(0, 1), Rat(0, 1), Rat(0, 1)>>
        /\ resp.status = 200
        /\ resp.conditions = <<>>
        /\ resp.summary = "Great day for outdoor activities!"

\* C8: the weather GET goes to the historical-archive endpoint exactly when
\* the requested date is strictly before today's UTC date, to the forecast
\* endpoint otherwise (today included), with start_date and end_date both
\* the original date string.
C8_EndpointByDate ==
    \A i \in WeatherCalls :
        /\ IsCalendarDate(req.date)
        /\ calls[i].to = ArchiveUrl <=> DayNumber(req.date) < TodayNumber
        /\ calls[i].to = ForecastUrl <=> DayNumber(req.date) >= TodayNumber
        /\ calls[i].params.start_date = req.date.s
        /\ calls[i].params.end_date = req.date.s

C8_Witness ==
    /\ Len(calls) = 1
    /\ req.date = Str(Chars_2024_3_5)
    /\ today = [y |-> 2024, m |-> 3, d |-> 5]
    /\ calls[1].to = ForecastUrl
    /\ calls[1].params.start_date = Chars_2024_3_5

\* C10: one request issues at most one weather GET and at most one
\* geocoding GET; nothing is issued before validation has succeeded; a
\* geocoding GET comes only after a successful weather GET whose metrics
\* were classified; a 400 or 502 response has issued no geocoding GET.
C10_OutboundCallOrder ==
    /\ Cardinality(WeatherCalls) <= 1
    /\ Cardinality(GeoCalls) <= 1
    /\ calls # <<>> => (pc # "recv" /\ ~AnyFieldFalsy /\ IsCalendarDate(req.date))
    /\ \A i \in GeoCalls :
           /\ i = 2
           /\ 1 \in WeatherCalls
           /\ wx.kind = "ok"
           /\ ~conditions.raised /\ conditions # NotRun
    /\ resp.status \in {400, 502} => GeoCalls = {}

C10_Witness ==
    /\ pc = "done"
    /\ resp.status = 502
    /\ Len(calls) = 1
    /\ WeatherCalls = {1}

(***************************************************************************)
(* Properties of the helpers, checked under their own specifications.      *)
(***************************************************************************)
\* What the five rules are to decide on the metrics in arg.
Holds(label) ==
    CASE label = "Very Hot" -> Gt(arg[1], 35)
      [] label = "Very Cold" -> Lt(arg[1], 5)
      [] label = "Very Windy" -> Gt(arg[2], 40)
      [] label = "Very Wet" -> Gt(arg[3], 10)
      [] label = "Very Uncomfortable" -> Gt(arg[4], 80)
      [] OTHER -> FALSE
ExpectedMatches ==
    LET all == [i \in 1..Len(CONDITION_RULES) |-> ConditionMatch(CONDITION_RULES[i])]
        keep(m) == Holds(m.label)
    IN  SelectSeq(all, keep)

\* C5: classify_conditions returns without failing, and returns exactly the
\* rules whose strict predicate holds (temp > 35, temp < 5, wind > 40,
\* precip > 10, humidity > 80), in rule order, each rendered as its
\* label, icon, risk, advice and color.
C5_ClassifierTotal ==
    (pc = "returned" /\ fn = "classify_conditions") =>
        /\ ~ret.raised
        /\ ret.val = ExpectedMatches

\* The sentence the priority order gives for a set of labels.
LabelsOf(conditionSeq) == {conditionSeq[i].label : i \in 1..Len(conditionSeq)}
ExpectedSummary(labels) ==
    IF labels = {} THEN "Great day for outdoor activities!"
    ELSE IF labels \cap {"Very Hot", "Very Wet", "Very Uncomfortable"} # {}
    THEN "This day looks uncomfortable for hiking. Best to plan indoors."
    ELSE IF "Very Windy" \in labels
    THEN "Windy conditions. Caution advised for outdoor events."
    ELSE "Dress warmly for outdoor activities."

\* C6: get_summary returns one sentence chosen by priority over the set of
\* labels present, whatever the order of the records: none -> "Great day";
\* Very Hot, Very Wet or Very Uncomfortable -> "uncomfortable for hiking";
\* else Very Windy -> "Windy conditions"; else Very Cold -> "Dress warmly";
\* the default "Check conditions before heading out." is never returned.
C6_SummaryPriority ==
    (pc = "returned" /\ fn = "get_summary") =>
        /\ ret = ExpectedSummary(LabelsOf(arg))
        /\ ret # "Check conditions before heading out."

C6_Witness ==
    /\ pc = "returned" /\ fn = "get_summary"
    /\ Len(arg) = 2
    /\ arg[1].label = "Very Cold" /\ arg[2].label = "Very Windy"
    /\ ret = "Windy conditions. Caution advised for outdoor events."

\* C9: get_location_name never raises to its caller, for any coordinates
\* that pass the handler's validation and any outcome of the geocoding
\* call: it returns the provider's display_name when the call succeeds with
\* that field, and otherwise lat and lon to two decimals joined by ", ".
C9_LocationNeverRaises ==
    (pc = "returned" /\ fn = "get_location_name") =>
        /\ ~ret.out.raised
        /\ ret.out.val = IF ret.geo.kind = "display_name" THEN ret.geo.name
                         ELSE Fmt2(arg[1]) \o ", " \o Fmt2(arg[2])

====
